---- MODULE Spec2Model ----
(***************************************************************************)
(* A model of gpx.waypoint.Waypoint (src/src/gpx/waypoint.py): the parse   *)
(* of a waypoint element into typed fields, the build of an element from    *)
(* the fields, the GeoJSON-like projection and the pairwise metrics.        *)
(*                                                                          *)
(* Texts are sequences of one-character strings, so that every conversion   *)
(* between a text and a value (Decimal, int, datetime, Fix, ...) is          *)
(* computed character by character as the library computes it.  An optional *)
(* value is a sequence of length at most one: None is <<>> and a value v    *)
(* that is present is <<v>>.                                                 *)
(***************************************************************************)
EXTENDS Integers, Sequences, FiniteSets, TLC

VARIABLES wp, out

vars == <<wp, out>>

----------------------------------------------------------------------------
(* Optional values and small helpers *)

None == <<>>

Some(v) == <<v>>

IsNone(o) == o = <<>>

Get(o) == o[1]

Digits == <<"0", "1", "2", "3", "4", "5", "6", "7", "8", "9">>

IsDigit(c) == \E i \in 1..10 : Digits[i] = c

DigitVal(c) == (CHOOSE i \in 1..10 : Digits[i] = c) - 1

AllDigits(t) == \A i \in 1..Len(t) : IsDigit(t[i])

RECURSIVE DigitsToNat(_)
DigitsToNat(t) ==
    IF t = <<>> THEN 0
    ELSE 10 * DigitsToNat(SubSeq(t, 1, Len(t) - 1)) + DigitVal(t[Len(t)])

RECURSIVE NatToDigits(_)
NatToDigits(n) ==
    IF n < 10 THEN <<Digits[n + 1]>>
    ELSE NatToDigits(n \div 10) \o <<Digits[(n % 10) + 1]>>

RECURSIVE Pow10(_)
Pow10(k) == IF k = 0 THEN 1 ELSE 10 * Pow10(k - 1)

RECURSIVE Zeros(_)
Zeros(k) == IF k <= 0 THEN <<>> ELSE <<"0">> \o Zeros(k - 1)

ZeroPad(n, width) == Zeros(width - Len(NatToDigits(n))) \o NatToDigits(n)

Ok(v) == [ok |-> TRUE, val |-> v]

Err(e) == [ok |-> FALSE, exc |-> e]

IndexOf(t, c) ==
    IF \E i \in 1..Len(t) : t[i] = c
    THEN CHOOSE i \in 1..Len(t) : t[i] = c /\ \A j \in 1..(i - 1) : t[j] # c
    ELSE 0

----------------------------------------------------------------------------
(* decimal.Decimal: a sign, a coefficient and an exponent.  The model keeps *)
(* the finite decimals written without an exponent part.                    *)

Dec(s, c, e) == [sign |-> s, coef |-> c, exp |-> e]

\* A text without its leading sign.
Unsigned(t) == IF Len(t) > 0 /\ t[1] \in {"-", "+"} THEN Tail(t) ELSE t

\* The digits before the point (at index dot, 0 for none) and after it.
IntPart(body, dot) == IF dot = 0 THEN body ELSE SubSeq(body, 1, dot - 1)

FracPart(body, dot) == IF dot = 0 THEN <<>> ELSE SubSeq(body, dot + 1, Len(body))

DecimalFromDigits(sgn, ip, fp) ==
    IF AllDigits(ip) /\ AllDigits(fp) /\ Len(ip) + Len(fp) > 0
    THEN Ok(Dec(sgn, DigitsToNat(ip \o fp), 0 - Len(fp)))
    ELSE Err("InvalidOperation")

DecimalFromBody(sgn, body, dot) ==
    DecimalFromDigits(sgn, IntPart(body, dot), FracPart(body, dot))

\* Decimal(text): [sign] digits [. digits] or [sign] . digits; None is a TypeError.
DecimalOf(text) ==
    IF IsNone(text) THEN Err("TypeError")
    ELSE DecimalFromBody(IF Len(Get(text)) > 0 /\ Get(text)[1] = "-" THEN 1 ELSE 0,
                         Unsigned(Get(text)), IndexOf(Unsigned(Get(text)), "."))

\* str(Decimal), the branch without an exponent (exp <= 0, leftdigits > -6).
DecimalStr(d) ==
    LET int       == NatToDigits(d.coef)
        dotplace  == d.exp + Len(int)
        intpart   == IF dotplace <= 0 THEN <<"0">>
                     ELSE SubSeq(int, 1, dotplace)
        fracpart  == IF dotplace <= 0 THEN <<".">> \o Zeros(0 - dotplace) \o int
                     ELSE IF dotplace >= Len(int) THEN <<>>
                     ELSE <<".">> \o SubSeq(int, dotplace + 1, Len(int))
    IN  (IF d.sign = 1 THEN <<"-">> ELSE <<>>) \o intpart \o fracpart

\* The signed coefficient of d at exponent e (e <= d.exp).
Scaled(d, e) == (IF d.sign = 1 THEN -1 ELSE 1) * d.coef * Pow10(d.exp - e)

MinExp(x, y) == IF x.exp < y.exp THEN x.exp ELSE y.exp

\* Decimal.__eq__: numeric equality.
DecEq(x, y) == Scaled(x, MinExp(x, y)) = Scaled(y, MinExp(x, y))

\* Decimal.__sub__: exact at the smaller exponent; a zero result is positive.
DecSub(x, y) ==
    LET e == MinExp(x, y)
        r == Scaled(x, e) - Scaled(y, e)
    IN  Dec(IF r < 0 THEN 1 ELSE 0, IF r < 0 THEN 0 - r ELSE r, e)

IntFromBody(neg, body) ==
    IF Len(body) > 0 /\ AllDigits(body)
    THEN Ok(IF neg THEN 0 - DigitsToNat(body) ELSE DigitsToNat(body))
    ELSE Err("ValueError")

\* int(text): [sign] digits; None is a TypeError.
IntOf(text) ==
    IF IsNone(text) THEN Err("TypeError")
    ELSE IntFromBody(Len(Get(text)) > 0 /\ Get(text)[1] = "-", Unsigned(Get(text)))

\* str(int)
IntStr(n) == IF n < 0 THEN <<"-">> \o NatToDigits(0 - n) ELSE NatToDigits(n)

----------------------------------------------------------------------------
(* The validated scalar types of gpx.types: Latitude, Longitude and Degrees *)
(* are Decimals with a range, Fix is a string of a fixed vocabulary and     *)
(* DGPSStation an int with a range.                                         *)

\* lo <= d <= hi for integers lo, hi and a Decimal d.
DecInRange(d, lo, hi) ==
    /\ lo * Pow10(0 - d.exp) <= Scaled(d, d.exp)
    /\ Scaled(d, d.exp) <= hi * Pow10(0 - d.exp)

\* The result r of a Decimal construction, refused outside lo..hi.
RangedDecimal(r, lo, hi) ==
    IF ~r.ok THEN r
    ELSE IF DecInRange(r.val, lo, hi) THEN r ELSE Err("ValueError")

Latitude(text) == RangedDecimal(DecimalOf(text), -90, 90)

Longitude(text) == RangedDecimal(DecimalOf(text), -180, 180)

\* The result r of a Decimal construction, refused outside 0 <= d < 360.
RangedDegrees(r) ==
    IF ~r.ok THEN r
    ELSE IF /\ 0 <= Scaled(r.val, r.val.exp)
            /\ Scaled(r.val, r.val.exp) < 360 * Pow10(0 - r.val.exp)
         THEN r ELSE Err("ValueError")

Degrees(text) == RangedDegrees(DecimalOf(text))

FixValues ==
    { <<"n", "o", "n", "e">>, <<"2", "d">>, <<"3", "d">>,
      <<"d", "g", "p", "s">>, <<"p", "p", "s">> }

Fix(text) ==
    IF IsNone(text) THEN Err("ValueError")
    ELSE IF Get(text) \in FixValues THEN Ok(Get(text)) ELSE Err("ValueError")

\* The result r of an int construction, refused outside 0..1023.
RangedStation(r) ==
    IF ~r.ok THEN r
    ELSE IF 0 <= r.val /\ r.val <= 1023 THEN r ELSE Err("ValueError")

DGPSStation(text) == RangedStation(IntOf(text))

----------------------------------------------------------------------------
(* datetime.datetime, dateutil.parser.isoparse, datetime.isoformat and      *)
(* datetime subtraction.  tzinfo is None (a naive datetime) or the UTC      *)
(* offset in minutes.                                                       *)

IsLeap(y) == y % 4 = 0 /\ (y % 100 # 0 \/ y % 400 = 0)

DaysInMonth(y, m) ==
    IF m = 2 THEN (IF IsLeap(y) THEN 29 ELSE 28)
    ELSE IF m \in {4, 6, 9, 11} THEN 30 ELSE 31

RECURSIVE DaysBeforeMonth(_, _)
DaysBeforeMonth(y, m) ==
    IF m = 1 THEN 0 ELSE DaysBeforeMonth(y, m - 1) + DaysInMonth(y, m - 1)

\* datetime.toordinal
ToOrdinal(dt) ==
    LET y == dt.year - 1
    IN  y * 365 + (y \div 4) - (y \div 100) + (y \div 400)
          + DaysBeforeMonth(dt.year, dt.month) + dt.day

\* The UTC offset at the end of an ISO-8601 text: nothing, Z or +HH:MM / -HH:MM.
ParseTz(t) ==
    IF t = <<>> THEN Ok(None)
    ELSE IF t = <<"Z">> THEN Ok(Some(0))
    ELSE IF /\ Len(t) = 6 /\ t[1] \in {"+", "-"} /\ t[4] = ":"
            /\ AllDigits(SubSeq(t, 2, 3)) /\ AllDigits(SubSeq(t, 5, 6))
            /\ DigitsToNat(SubSeq(t, 5, 6)) <= 59
            /\ DigitsToNat(SubSeq(t, 2, 3)) <= 23
         THEN LET m == DigitsToNat(SubSeq(t, 2, 3)) * 60 + DigitsToNat(SubSeq(t, 5, 6))
              IN  Ok(Some(IF t[1] = "-" THEN 0 - m ELSE m))
         ELSE Err("ValueError")

\* The longest prefix of digits of t.
RECURSIVE DigitPrefix(_)
DigitPrefix(t) ==
    IF t = <<>> \/ ~IsDigit(Head(t)) THEN <<>>
    ELSE <<Head(t)>> \o DigitPrefix(Tail(t))

DT(y, mo, d, h, mi, s, us, tz) ==
    [year |-> y, month |-> mo, day |-> d, hour |-> h, minute |-> mi,
     second |-> s, microsecond |-> us, tzinfo |-> tz]

\* The text has the shape YYYY-MM-DD<sep>HH:MM:SS followed by anything.
IsoShape(t) ==
    /\ Len(t) >= 19
    /\ AllDigits(SubSeq(t, 1, 4)) /\ t[5] = "-"
    /\ AllDigits(SubSeq(t, 6, 7)) /\ t[8] = "-"
    /\ AllDigits(SubSeq(t, 9, 10))
    /\ AllDigits(SubSeq(t, 12, 13)) /\ t[14] = ":"
    /\ AllDigits(SubSeq(t, 15, 16)) /\ t[17] = ":"
    /\ AllDigits(SubSeq(t, 18, 19))

HasFraction(rest) == Len(rest) > 0 /\ rest[1] \in {".", ","}

\* The digits of the fraction of a second, at most six of which count.
IsoFraction(rest) == IF HasFraction(rest) THEN DigitPrefix(Tail(rest)) ELSE <<>>

IsoMicrosecond(frac) ==
    IF Len(frac) > 6 THEN DigitsToNat(SubSeq(frac, 1, 6))
    ELSE DigitsToNat(frac) * Pow10(6 - Len(frac))

\* What follows the seconds and their fraction.
IsoTzText(rest, frac) ==
    IF HasFraction(rest) THEN SubSeq(rest, 2 + Len(frac), Len(rest)) ELSE rest

\* The datetime of the components, or the ValueError of a component out of
\* its range.
IsoChecked(rest, frac, tz, dt) ==
    IF \/ (HasFraction(rest) /\ frac = <<>>) \/ ~tz.ok
       \/ dt.year < 1 \/ dt.month < 1 \/ dt.month > 12
       \/ dt.day < 1 \/ dt.day > DaysInMonth(dt.year, dt.month)
       \/ dt.hour > 23 \/ dt.minute > 59 \/ dt.second > 59
    THEN Err("ValueError")
    ELSE Ok([dt EXCEPT !.tzinfo = tz.val])

IsoComponents(t, rest, frac) ==
    IsoChecked(rest, frac, ParseTz(IsoTzText(rest, frac)),
               DT(DigitsToNat(SubSeq(t, 1, 4)), DigitsToNat(SubSeq(t, 6, 7)),
                  DigitsToNat(SubSeq(t, 9, 10)), DigitsToNat(SubSeq(t, 12, 13)),
                  DigitsToNat(SubSeq(t, 15, 16)), DigitsToNat(SubSeq(t, 18, 19)),
                  IsoMicrosecond(frac), None))

IsoTail(t, rest) == IsoComponents(t, rest, IsoFraction(rest))

\* isoparse(text) for YYYY-MM-DD<sep>HH:MM:SS[.f+][Z|+HH:MM|-HH:MM].
isoparse(text) ==
    IF IsNone(text) THEN Err("TypeError")
    ELSE IF ~IsoShape(Get(text)) THEN Err("ValueError")
    ELSE IsoTail(Get(text), SubSeq(Get(text), 20, Len(Get(text))))

\* datetime.isoformat(timespec=...): timespec is "auto", "milliseconds" or
\* "seconds".
isoformat(dt, timespec) ==
    LET off == IF IsNone(dt.tzinfo) THEN 0 ELSE Get(dt.tzinfo)
        abs == IF off < 0 THEN 0 - off ELSE off
    IN  ZeroPad(dt.year, 4) \o <<"-">> \o ZeroPad(dt.month, 2) \o <<"-">>
          \o ZeroPad(dt.day, 2) \o <<"T">> \o ZeroPad(dt.hour, 2) \o <<":">>
          \o ZeroPad(dt.minute, 2) \o <<":">> \o ZeroPad(dt.second, 2)
          \o (IF timespec = "milliseconds"
              THEN <<".">> \o ZeroPad(dt.microsecond \div 1000, 3)
              ELSE IF timespec = "auto" /\ dt.microsecond # 0
              THEN <<".">> \o ZeroPad(dt.microsecond, 6) ELSE <<>>)
          \o (IF IsNone(dt.tzinfo) THEN <<>>
              ELSE <<(IF off < 0 THEN "-" ELSE "+")>> \o ZeroPad(abs \div 60, 2)
                     \o <<":">> \o ZeroPad(abs % 60, 2))

IsPrefix(p, t) == Len(p) <= Len(t) /\ SubSeq(t, 1, Len(p)) = p

\* str.replace(old, new)
RECURSIVE Replace(_, _, _)
Replace(t, old, new) ==
    IF t = <<>> THEN <<>>
    ELSE IF IsPrefix(old, t)
         THEN new \o Replace(SubSeq(t, Len(old) + 1, Len(t)), old, new)
         ELSE <<Head(t)>> \o Replace(Tail(t), old, new)

\* timedelta(days, seconds, microseconds), normalised as the constructor does.
timedelta(days, seconds, microseconds) ==
    LET s == seconds + (microseconds \div 1000000)
    IN  [days |-> days + (s \div 86400), seconds |-> s % 86400,
         microseconds |-> microseconds % 1000000]

\* datetime.__sub__: a naive and an aware datetime do not subtract.
DatetimeSub(x, y) ==
    IF IsNone(x.tzinfo) # IsNone(y.tzinfo) THEN Err("TypeError")
    ELSE
      LET secs(d) == d.hour * 3600 + d.minute * 60 + d.second
          offs(d) == IF IsNone(d.tzinfo) THEN 0 ELSE Get(d.tzinfo) * 60
      IN  Ok(timedelta(ToOrdinal(x) - ToOrdinal(y),
                       (secs(x) - offs(x)) - (secs(y) - offs(y)),
                       x.microsecond - y.microsecond))

\* datetime.__eq__: aware datetimes compare as instants, naive ones field by
\* field, and a naive datetime never equals an aware one.
DatetimeEq(x, y) ==
    LET d == DatetimeSub(x, y)
    IN  d.ok /\ d.val = timedelta(0, 0, 0)

----------------------------------------------------------------------------
(* The element tree (lxml.etree) as the waypoint uses it, the Element base  *)
(* class and the Link sub-entity.  A child is [tag, text, sub]: text is the *)
(* optional text of the child and sub the optional content of a link child, *)
(* [href, text].                                                             *)

Child(tag, text) == [tag |-> tag, text |-> text, sub |-> None]

\* etree._Element.find: the first child with the tag, or None.
find(element, tag) ==
    IF \E i \in 1..Len(element.children) : element.children[i].tag = tag
    THEN Some(element.children[
           CHOOSE i \in 1..Len(element.children) :
              /\ element.children[i].tag = tag
              /\ \A j \in 1..(i - 1) : element.children[j].tag # tag])
    ELSE None

\* etree._Element.iterfind: every child with the tag, in document order.
iterfind(element, tag) == SelectSeq(element.children, LAMBDA c : c.tag = tag)

\* etree.SubElement followed by the assignment of the text.
SubElement(element, tag, text) ==
    [element EXCEPT !.children = Append(@, Child(tag, Some(text)))]

\* Element._build: the root node with the tag and no attribute or child.
ElementBuild(tag) ==
    [tag |-> tag, attrib |-> [lat |-> None, lon |-> None], children |-> <<>>]

\* Link(element): the href attribute is required, the text child is optional.
LinkParse(c) ==
    IF IsNone(c.sub) \/ IsNone(Get(c.sub).href) THEN Err("ValueError")
    ELSE Ok([href |-> Get(Get(c.sub).href), text |-> Get(c.sub).text])

\* Link._build
LinkBuild(l) ==
    [tag |-> "link", text |-> None,
     sub |-> Some([href |-> Some(l.href), text |-> l.text])]

----------------------------------------------------------------------------
(* Waypoint *)

DecimalFields == {"ele", "geoidheight", "hdop", "vdop", "pdop", "ageofdgpsdata"}

TextFields == {"name", "cmt", "desc", "src", "sym", "type"}

TypedFields == DecimalFields \cup {"time", "magvar", "fix", "sat", "dgpsid"}

OptionalFields == TypedFields \cup TextFields

\* Waypoint.__init__ before the parse: every optional field is None, links is
\* the empty list, and lat and lon are declared but not assigned.
NewWaypoint ==
    [lat |-> None, lon |-> None, ele |-> None, time |-> None, magvar |-> None,
     geoidheight |-> None, name |-> None, cmt |-> None, desc |-> None,
     src |-> None, links |-> <<>>, sym |-> None, type |-> None, fix |-> None,
     sat |-> None, hdop |-> None, vdop |-> None, pdop |-> None,
     ageofdgpsdata |-> None, dgpsid |-> None]

\* The statements of _parse, in their order.
ParseOrder ==
    <<"lat", "lon", "ele", "time", "magvar", "geoidheight", "name", "cmt",
      "desc", "src", "links", "sym", "type", "fix", "sat", "hdop", "vdop",
      "pdop", "ageofdgpsdata", "dgpsid">>

\* The value of a field of a typed conversion's result: present.
Typed(r) == IF r.ok THEN Ok(Some(r.val)) ELSE r

\* The conversion _parse applies to the text of the attribute or child of
\* field f; the result is the new value of the field (the text fields take
\* the text as it is, None included).
Convert(f, text) ==
    CASE f = "lat"               -> Typed(Latitude(text))
      [] f = "lon"               -> Typed(Longitude(text))
      [] f \in DecimalFields     -> Typed(DecimalOf(text))
      [] f = "time"              -> Typed(isoparse(text))
      [] f = "magvar"            -> Typed(Degrees(text))
      [] f = "fix"               -> Typed(Fix(text))
      [] f = "sat"               -> Typed(IntOf(text))
      [] f = "dgpsid"            -> Typed(DGPSStation(text))
      [] f \in TextFields        -> Ok(text)

\* The append of Link(link) to links, or the exception of the Link.
AppendParsed(links, r) == IF r.ok THEN Ok(Append(links, r.val)) ELSE r

\* The append of Link(link) for every link child; the first Link that fails
\* raises.
RECURSIVE ParseLinks(_, _)
ParseLinks(r, cs) ==
    IF cs = <<>> \/ ~r.ok THEN r
    ELSE ParseLinks(AppendParsed(r.val, LinkParse(Head(cs))), Tail(cs))

\* A faulty assignment that leaves the field at its default when the
\* conversion fails; C3 distinguishes it from Store.
StoreLenient(self, f, r) == IF r.ok THEN Ok([self EXCEPT ![f] = r.val]) ELSE Ok(self)

\* The assignment self.f = value of a conversion r, or its exception.
Store(self, f, r) == IF r.ok THEN Ok([self EXCEPT ![f] = r.val]) ELSE r

\* The statement of _parse for the optional field f, whose child is c.
ParseChild(self, f, c) ==
    IF IsNone(c) THEN Ok(self) ELSE Store(self, f, Convert(f, Get(c).text))

\* One statement of _parse: self after it, or the exception it raises.
ParseField(self, element, f) ==
    CASE f \in {"lat", "lon"} -> Store(self, f, Convert(f, element.attrib[f]))
      [] f = "links" ->
           Store(self, f, ParseLinks(Ok(self.links), iterfind(element, "link")))
      [] OTHER -> ParseChild(self, f, find(element, f))

\* _parse from statement i on, r being the result of statement i: the object
\* when every statement succeeded, else the exception and the field of the
\* statement that raised.
RECURSIVE ParseFrom(_, _, _)
ParseFrom(r, element, i) ==
    IF ~r.ok THEN [ok |-> FALSE, exc |-> r.exc, field |-> ParseOrder[i]]
    ELSE IF i = Len(ParseOrder) THEN r
    ELSE ParseFrom(ParseField(r.val, element, ParseOrder[i + 1]), element, i + 1)

_parse(self, element) ==
    ParseFrom(ParseField(self, element, ParseOrder[1]), element, 1)

\* Waypoint(element): element is None or an element.  The value is the new
\* object, or the exception that __init__ raised.
__init__(element) ==
    IF IsNone(element) THEN Ok(NewWaypoint)
    ELSE _parse(NewWaypoint, Get(element))

\* A faulty order of _build that emits the link children after every other
\* child; C10 distinguishes it from BuildOrder.
BuildOrderLinksLate ==
    <<"ele", "time", "magvar", "geoidheight", "name", "cmt", "desc", "src",
      "sym", "type", "fix", "sat", "hdop", "vdop", "pdop",
      "ageofdgpsdata", "dgpsid", "links">>

\* The children _build emits, in their order.
BuildOrder ==
    <<"ele", "time", "magvar", "geoidheight", "name", "cmt", "desc", "src",
      "links", "sym", "type", "fix", "sat", "hdop", "vdop", "pdop",
      "ageofdgpsdata", "dgpsid">>

\* A faulty rendering of the time child that always drops the sub-second
\* part; C1 distinguishes it from TimeText.
TimeTextSeconds(t) ==
    Replace(isoformat(t, "seconds"), <<"+", "0", "0", ":", "0", "0">>, <<"Z">>)

\* The text _build gives the time child.
TimeText(t) ==
    Replace(isoformat(t, IF t.microsecond # 0 THEN "milliseconds" ELSE "seconds"),
            <<"+", "0", "0", ":", "0", "0">>, <<"Z">>)

\* The text _build gives the child of field f, whose value is v.
Render(f, v) ==
    CASE f \in DecimalFields \cup {"magvar"} -> DecimalStr(v)
      [] f = "time"                          -> TimeText(v)
      [] f \in {"sat", "dgpsid"}             -> IntStr(v)
      [] f \in TextFields \cup {"fix"}       -> v

RECURSIVE BuildLinks(_, _)
BuildLinks(waypoint, links) ==
    IF links = <<>> THEN waypoint
    ELSE BuildLinks([waypoint EXCEPT !.children = Append(@, LinkBuild(Head(links)))],
                    Tail(links))

\* A faulty statement of _build that emits an empty node for a field that
\* is None; C2 distinguishes it from BuildField.
BuildFieldEmptyNode(self, waypoint, f) ==
    IF f = "links" THEN BuildLinks(waypoint, self.links)
    ELSE IF IsNone(self[f]) THEN SubElement(waypoint, f, <<>>)
    ELSE SubElement(waypoint, f, Render(f, Get(self[f])))

\* One statement of _build.
BuildField(self, waypoint, f) ==
    IF f = "links" THEN BuildLinks(waypoint, self.links)
    ELSE IF IsNone(self[f]) THEN waypoint
    ELSE SubElement(waypoint, f, Render(f, Get(self[f])))

RECURSIVE BuildFrom(_, _, _)
BuildFrom(self, waypoint, i) ==
    IF i > Len(BuildOrder) THEN waypoint
    ELSE BuildFrom(self, BuildField(self, waypoint, BuildOrder[i]), i + 1)

\* _build(tag): reading lat or lon before it was assigned is an
\* AttributeError.
_build(self, tag) ==
    IF IsNone(self.lat) \/ IsNone(self.lon) THEN Err("AttributeError")
    ELSE Ok(BuildFrom(self,
                      [ElementBuild(tag) EXCEPT
                         !.attrib = [lat |-> Some(DecimalStr(Get(self.lat))),
                                     lon |-> Some(DecimalStr(Get(self.lon)))]],
                      1))

----------------------------------------------------------------------------
(* The GeoJSON-like projection and the pairwise metrics.  A float is kept   *)
(* as an exact decimal in lowest form: the model's coordinates and          *)
(* elevations are binary fractions, which float() converts exactly.         *)

\* float(Decimal)
RECURSIVE float(_)
float(d) ==
    IF d.exp < 0 /\ d.coef % 10 = 0 THEN float(Dec(d.sign, d.coef \div 10, d.exp + 1))
    ELSE d

\* A faulty _coords that tests the truth value of ele, which is false for a
\* zero Decimal; C8 distinguishes it from _coords.
_coordsTruthy(self) ==
    IF IsNone(self.lon) \/ IsNone(self.lat) THEN Err("AttributeError")
    ELSE IF ~IsNone(self.ele) /\ Get(self.ele).coef # 0
         THEN Ok(<<Get(self.lon), Get(self.lat), Get(self.ele)>>)
         ELSE Ok(<<Get(self.lon), Get(self.lat)>>)

\* Waypoint._coords
_coords(self) ==
    IF IsNone(self.lon) \/ IsNone(self.lat) THEN Err("AttributeError")
    ELSE IF ~IsNone(self.ele)
         THEN Ok(<<Get(self.lon), Get(self.lat), Get(self.ele)>>)
         ELSE Ok(<<Get(self.lon), Get(self.lat)>>)

OptFloat(o) == IF IsNone(o) THEN None ELSE Some(float(Get(o)))

\* The dict {link.text: link.href for link in self.links}: a later link
\* replaces an earlier one with the same text.
LinksDict(links) ==
    [t \in {links[i].text : i \in 1..Len(links)} |->
       links[CHOOSE i \in 1..Len(links) :
               /\ links[i].text = t
               /\ \A j \in (i + 1)..Len(links) : links[j].text # t].href]

\* Waypoint.__geo_interface__
__geo_interface__(self) ==
    LET c == _coords(self)
    IN  IF ~c.ok THEN c
        ELSE Ok([type |-> "Feature",
                 geometry |->
                   [type |-> "Point",
                    coordinates |-> [i \in 1..Len(c.val) |-> float(c.val[i])]],
                 properties |->
                   [time |-> IF IsNone(self.time) THEN None
                             ELSE Some(isoformat(Get(self.time), "auto")),
                    magvar |-> OptFloat(self.magvar),
                    geoidheight |-> OptFloat(self.geoidheight),
                    name |-> self.name, cmt |-> self.cmt, desc |-> self.desc,
                    src |-> self.src, links |-> LinksDict(self.links),
                    sym |-> self.sym, type |-> self.type, fix |-> self.fix,
                    sat |-> self.sat, hdop |-> OptFloat(self.hdop),
                    vdop |-> OptFloat(self.vdop), pdop |-> OptFloat(self.pdop),
                    ageofdgpsdata |-> OptFloat(self.ageofdgpsdata),
                    dgpsid |-> IF IsNone(self.dgpsid) THEN None
                               ELSE Some(IntStr(Get(self.dgpsid)))]])

\* The default radius of distance_to, in metres.
EarthRadius == 6378137

\* A Decimal that is a whole number of degrees, as an integer.
WholeDegrees(d) == Scaled(d, d.exp) \div Pow10(0 - d.exp)

\* 2 * sin(x / 2)^2 and cos(x) for x a whole number of quarter turns, in
\* degrees: the model's coordinates are multiples of 90 degrees, where the
\* haversine terms are 0, 1/2 and 1.
TwiceSinSqHalf(deg) ==
    CASE deg % 360 = 0 -> 0 [] deg % 360 = 180 -> 2 [] OTHER -> 1

CosQuarter(deg) ==
    CASE deg % 360 = 0 -> 1 [] deg % 360 = 180 -> -1 [] OTHER -> 0

\* distance_to(other, radius), in whole metres: R * 2 * atan2(sqrt(a),
\* sqrt(1 - a)) is R * pi * a for a in {0, 1/2, 1}; pi is taken as 355/113.
distance_to(self, other, radius) ==
    IF \/ IsNone(self.lat) \/ IsNone(self.lon)
       \/ IsNone(other.lat) \/ IsNone(other.lon)
    THEN Err("AttributeError")
    ELSE
      LET phi1    == WholeDegrees(Get(self.lat))
          lambda1 == WholeDegrees(Get(self.lon))
          phi2    == WholeDegrees(Get(other.lat))
          lambda2 == WholeDegrees(Get(other.lon))
          a2      == TwiceSinSqHalf(phi2 - phi1)
                       + CosQuarter(phi1) * CosQuarter(phi2)
                           * TwiceSinSqHalf(lambda2 - lambda1)
          halfPiR == ((radius \div 226) * 355) + (((radius % 226) * 355) \div 226)
      IN  Ok(a2 * halfPiR)

\* A faulty duration_to that returns the zero duration only when both
\* timestamps are missing, and so subtracts from None; C6 distinguishes it
\* from duration_to.
duration_toBothMissing(self, other) ==
    IF IsNone(self.time) /\ IsNone(other.time) THEN Ok(timedelta(0, 0, 0))
    ELSE IF IsNone(self.time) \/ IsNone(other.time) THEN Err("TypeError")
    ELSE DatetimeSub(Get(other.time), Get(self.time))

\* duration_to(other)
duration_to(self, other) ==
    IF IsNone(self.time) \/ IsNone(other.time) THEN Ok(timedelta(0, 0, 0))
    ELSE DatetimeSub(Get(other.time), Get(self.time))

\* A faulty speed_to that returns a zero speed for a zero duration; C7
\* distinguishes it from speed_to.
speed_toClamped(self, other) ==
    LET d == distance_to(self, other, EarthRadius)
        t == duration_to(self, other)
    IN  IF ~d.ok THEN d
        ELSE IF ~t.ok THEN t
        ELSE IF t.val = timedelta(0, 0, 0) THEN Ok([metres |-> 0, duration |-> t.val])
        ELSE Ok([metres |-> d.val, duration |-> t.val])

\* speed_to(other): the quotient is kept as its two terms, metres and the
\* duration; a float division by a zero number of seconds raises.
speed_to(self, other) ==
    LET d == distance_to(self, other, EarthRadius)
        t == duration_to(self, other)
    IN  IF ~d.ok THEN d
        ELSE IF ~t.ok THEN t
        ELSE IF t.val = timedelta(0, 0, 0) THEN Err("ZeroDivisionError")
        ELSE Ok([metres |-> d.val, duration |-> t.val])

\* gain_to(other)
gain_to(self, other) ==
    IF IsNone(self.ele) \/ IsNone(other.ele) THEN Dec(0, 0, -1)
    ELSE DecSub(Get(other.ele), Get(self.ele))

\* slope_to(other): the quotient is kept as its two terms; a Decimal division
\* by zero raises DivisionByZero, and InvalidOperation when the gain is zero
\* too.
slope_to(self, other) ==
    LET g == gain_to(self, other)
        d == distance_to(self, other, EarthRadius)
    IN  IF ~d.ok THEN d
        ELSE IF d.val = 0
             THEN (IF g.coef = 0 THEN Err("InvalidOperation")
                   ELSE Err("DivisionByZero"))
        ELSE Ok([gain |-> g, metres |-> d.val, times |-> 100])

----------------------------------------------------------------------------
(* Bounds and the inputs of the operations *)

\* The largest number of children of an input element drawn from ChildPool.
MaxChildren == 2

\* The largest number of optional fields and links a caller's assignments
\* leave set on one waypoint.
MaxSet == 2

Handles == {"a", "b"}

LinkChild(href, text) ==
    [tag |-> "link", text |-> None, sub |-> Some([href |-> href, text |-> text])]

\* The texts of the children of the input elements: for every typed field a
\* text that converts, one that does not, and a child without text.
ChildPool ==
    { Child("ele", Some(<<"1", ".", "5">>)), Child("ele", Some(<<"x">>)), Child("ele", None),
      Child("time", Some(<<"2", "0", "2", "0", "-", "0", "1", "-", "0", "1", "T", "0", "0", ":", "0", "0", ":", "0", "5">>)),
      Child("time", Some(<<"2", "0", "2", "0", "-", "0", "1", "-", "0", "1", "T", "0", "0", ":", "0", "0", ":", "0", "5", ".", "0", "0", "0", "5", "Z">>)),
      Child("time", Some(<<"2", "0", "2", "0", "-", "0", "2", "-", "2", "9", "T", "0", "2", ":", "0", "0", ":", "0", "5", ".", "1", "2", "3", "+", "0", "2", ":", "0", "0">>)),
      Child("time", Some(<<"2", "0", "2", "0", "-", "0", "1", "-", "0", "1">>)),
      Child("magvar", Some(<<"3", "5", "9", ".", "9">>)), Child("magvar", Some(<<"3", "6", "0">>)),
      Child("geoidheight", Some(<<"-", "1", "2", ".", "3", "4", "5", "0">>)),
      Child("name", Some(<<"A">>)), Child("name", None),
      Child("cmt", Some(<<"B">>)), Child("desc", Some(<<"C">>)), Child("src", Some(<<"D">>)),
      Child("sym", Some(<<"E">>)), Child("type", Some(<<"F">>)),
      Child("fix", Some(<<"2", "d">>)), Child("fix", Some(<<"4", "d">>)), Child("fix", None),
      Child("sat", Some(<<"7">>)), Child("sat", Some(<<"-", "3">>)), Child("sat", None),
      Child("hdop", Some(<<"1", ".", "0">>)), Child("vdop", Some(<<"2">>)), Child("pdop", Some(<<".", "5">>)),
      Child("ageofdgpsdata", Some(<<"0", ".", "0", "0", "1">>)),
      Child("dgpsid", Some(<<"1", "0", "2", "3">>)), Child("dgpsid", Some(<<"1", "0", "2", "4">>)),
      LinkChild(Some(<<"u">>), Some(<<"L">>)), LinkChild(Some(<<"v">>), None), LinkChild(None, Some(<<"L">>)) }

ChildSeqs(n) == UNION { [1..k -> ChildPool] : k \in 0..n }

Attrib(lat, lon) == [lat |-> lat, lon |-> lon]

AttribChoices ==
    { Attrib(Some(<<"0">>), Some(<<"0">>)), Attrib(Some(<<"9", "0", ".", "0">>), Some(<<"-", "1", "8", "0">>)), Attrib(None, Some(<<"0">>)),
      Attrib(Some(<<"9", "0", ".", "5">>), Some(<<"0">>)), Attrib(Some(<<"0">>), Some(<<"x">>)) }

\* An element with a child for every field and two links, in the order of
\* the GPX schema, and the same element with its children reversed.
FullChildren ==
    << Child("ele", Some(<<"1", ".", "5">>)), Child("time", Some(<<"2", "0", "2", "0", "-", "0", "1", "-", "0", "1", "T", "0", "0", ":", "0", "0", ":", "0", "5", ".", "0", "0", "0", "5", "Z">>)),
       Child("magvar", Some(<<"3", "5", "9", ".", "9">>)), Child("geoidheight", Some(<<"-", "1", "2", ".", "3", "4", "5", "0">>)),
       Child("name", Some(<<"A">>)), Child("cmt", Some(<<"B">>)), Child("desc", Some(<<"C">>)),
       Child("src", Some(<<"D">>)), LinkChild(Some(<<"u">>), Some(<<"L">>)), LinkChild(Some(<<"v">>), None),
       Child("sym", Some(<<"E">>)), Child("type", Some(<<"F">>)), Child("fix", Some(<<"2", "d">>)),
       Child("sat", Some(<<"7">>)), Child("hdop", Some(<<"1", ".", "0">>)), Child("vdop", Some(<<"2">>)),
       Child("pdop", Some(<<".", "5">>)), Child("ageofdgpsdata", Some(<<"0", ".", "0", "0", "1">>)),
       Child("dgpsid", Some(<<"1", "0", "2", "3">>)) >>

Reversed(q) == [i \in 1..Len(q) |-> q[Len(q) + 1 - i]]

\* The input elements: every choice of attributes with at most one child,
\* valid attributes with up to MaxChildren children in any order, and the
\* two full elements.
InputElements ==
    { [tag |-> "wpt", attrib |-> a, children |-> cs] :
         a \in AttribChoices, cs \in ChildSeqs(1) }
    \cup { [tag |-> "wpt", attrib |-> Attrib(Some(<<"0">>), Some(<<"0">>)), children |-> cs] :
              cs \in ChildSeqs(MaxChildren) }
    \cup { [tag |-> "wpt", attrib |-> Attrib(Some(<<"9", "0", ".", "0">>), Some(<<"-", "1", "8", "0">>)), children |-> cs] :
              cs \in {FullChildren, Reversed(FullChildren)} }

\* The elements of the pairwise-metrics specification: a position on the
\* quarter-turn grid and at most an elevation, a timestamp and a link.
PairChildSeqs ==
    { e \o t \o l :
        e \in {<<>>, <<Child("ele", Some(<<"1", ".", "5">>))>>},
        t \in {<<>>, <<Child("time", Some(<<"2", "0", "2", "0", "-", "0", "1", "-", "0", "1", "T", "0", "0", ":", "0", "0", ":", "0", "5", "Z">>))>>,
               <<Child("time", Some(<<"2", "0", "2", "0", "-", "0", "2", "-", "2", "9", "T", "0", "2", ":", "0", "0", ":", "0", "5", ".", "1", "2", "3", "+", "0", "2", ":", "0", "0">>))>>},
        l \in {<<>>} }
    \cup { <<Child("time", Some(<<"2", "0", "2", "0", "-", "0", "1", "-", "0", "1", "T", "0", "0", ":", "0", "0", ":", "0", "5", "Z">>)), LinkChild(Some(<<"u">>), Some(<<"L">>))>> }

PairElements ==
    { [tag |-> "wpt", attrib |-> Attrib(Some(<<"0">>), Some(<<"0">>)), children |-> cs] :
         cs \in PairChildSeqs }
    \cup { [tag |-> "wpt",
            attrib |-> Attrib(Some(<<"9", "0", ".", "0">>), Some(<<"-", "1", "8", "0">>)),
            children |-> cs] :
              cs \in { c \in PairChildSeqs : Len(c) > 0 /\ c[Len(c)].tag = "time" } }

\* The ordered pairs of handles the metrics are taken between.
HandlePairs == {<<"a", "a">>, <<"a", "b">>}

\* The values a caller assigns to a field (None clears an optional field).
AssignValues(f) ==
    CASE f = "lat" -> {Some(Dec(0, 0, 0)), Some(Dec(0, 900, -1))}
      [] f = "lon" -> {Some(Dec(0, 0, 0)), Some(Dec(1, 180, 0))}
      [] f = "ele" -> {None, Some(Dec(0, 0, 0)), Some(Dec(0, 15, -1))}
      [] f = "time" ->
           {None, Some(DT(2020, 1, 1, 0, 0, 5, 0, None)),
            Some(DT(2020, 1, 1, 0, 0, 5, 0, Some(0))),
            Some(DT(2020, 1, 1, 0, 0, 5, 500, Some(0))),
            Some(DT(2020, 2, 29, 2, 0, 5, 123456, Some(120)))}
      [] f = "magvar" -> {None, Some(Dec(0, 3599, -1))}
      [] f = "geoidheight" -> {None, Some(Dec(1, 123450, -4))}
      [] f = "name" -> {None, Some(<<"A">>), Some(<<>>)}
      [] f = "cmt" -> {None, Some(<<"B">>)}
      [] f = "desc" -> {None, Some(<<"C">>)}
      [] f = "src" -> {None, Some(<<"D">>)}
      [] f = "sym" -> {None, Some(<<"E">>)}
      [] f = "type" -> {None, Some(<<"F">>)}
      [] f = "fix" -> {None, Some(<<"2", "d">>), Some(<<"n", "o", "n", "e">>)}
      [] f = "sat" -> {None, Some(0), Some(7)}
      [] f = "hdop" -> {None, Some(Dec(0, 10, -1))}
      [] f = "vdop" -> {None, Some(Dec(0, 2, 0))}
      [] f = "pdop" -> {None, Some(Dec(0, 5, -1))}
      [] f = "ageofdgpsdata" -> {None, Some(Dec(0, 1, -3))}
      [] f = "dgpsid" -> {None, Some(0), Some(1023)}

LinkValues ==
    { [href |-> <<"u">>, text |-> Some(<<"L">>)],
      [href |-> <<"v">>, text |-> None] }

\* The fields the pairwise-metrics specification assigns.
PairFields == {"ele"}

\* The number of optional fields that are set, plus the number of links.
Populated(w) == Cardinality({f \in OptionalFields : ~IsNone(w[f])}) + Len(w.links)

----------------------------------------------------------------------------
(* The state: wp[h] is the Waypoint the caller holds under the handle h, or  *)
(* None; out is the last operation, its operands and what it returned or     *)
(* raised.                                                                   *)

Observe(op, self, other, arg, result) ==
    [op |-> op, self |-> self, other |-> other, arg |-> arg, result |-> result]

Init ==
    /\ wp = [h \in Handles |-> None]
    /\ out = Observe("none", "-", "-", None, Ok(TRUE))

\* The handle h is free, and the run has not ended with a construction that
\* raised.
CanConstruct(h) == IsNone(wp[h]) /\ ~(out.op = "init" /\ ~out.result.ok)

\* h = Waypoint(element): the caller gets the object unless __init__ raises.
Construct(h, element) ==
    /\ CanConstruct(h)
    /\ out' = Observe("init", h, "-", element, __init__(element))
    /\ wp' = IF out'.result.ok THEN [wp EXCEPT ![h] = Some(out'.result.val)] ELSE wp

\* h.f = v
Assign(h, f, v) ==
    /\ ~IsNone(wp[h])
    /\ Populated([Get(wp[h]) EXCEPT ![f] = v]) <= MaxSet
    /\ wp' = [wp EXCEPT ![h] = Some([Get(wp[h]) EXCEPT ![f] = v])]
    /\ out' = Observe("assign", h, "-", None, Ok(TRUE))

\* h.links.append(l)
AppendLink(h, l) ==
    /\ ~IsNone(wp[h])
    /\ Populated(Get(wp[h])) < MaxSet
    /\ wp' = [wp EXCEPT ![h] = Some([Get(wp[h]) EXCEPT !.links = Append(@, l)])]
    /\ out' = Observe("assign", h, "-", None, Ok(TRUE))

\* h._build(tag)
Build(h, tag) ==
    /\ ~IsNone(wp[h])
    /\ out' = Observe("build", h, "-", Some(tag), _build(Get(wp[h]), tag))
    /\ UNCHANGED wp

\* Waypoint(h._build(tag)): a Waypoint constructed from the element the
\* last operation built; the new object is the result.
Reparse(h) ==
    /\ out.op = "build" /\ out.self = h /\ out.result.ok
    /\ out' = Observe("reparse", h, "-", Some(out.result.val),
                      __init__(Some(out.result.val)))
    /\ UNCHANGED wp

\* h.__geo_interface__
GeoInterface(h) ==
    /\ ~IsNone(wp[h])
    /\ out' = Observe("geo", h, "-", None, __geo_interface__(Get(wp[h])))
    /\ UNCHANGED wp

\* h.distance_to(o)
DistanceTo(h, o) ==
    /\ ~IsNone(wp[h]) /\ ~IsNone(wp[o])
    /\ out' = Observe("distance_to", h, o, None,
                      distance_to(Get(wp[h]), Get(wp[o]), EarthRadius))
    /\ UNCHANGED wp

\* h.duration_to(o)
DurationTo(h, o) ==
    /\ ~IsNone(wp[h]) /\ ~IsNone(wp[o])
    /\ out' = Observe("duration_to", h, o, None, duration_to(Get(wp[h]), Get(wp[o])))
    /\ UNCHANGED wp

\* h.speed_to(o)
SpeedTo(h, o) ==
    /\ ~IsNone(wp[h]) /\ ~IsNone(wp[o])
    /\ out' = Observe("speed_to", h, o, None, speed_to(Get(wp[h]), Get(wp[o])))
    /\ UNCHANGED wp

\* A faulty gain_to that stores the default elevation in the waypoint that
\* lacks one; C9 distinguishes it from GainTo.
GainToStoringDefault(h, o) ==
    /\ ~IsNone(wp[h]) /\ ~IsNone(wp[o])
    /\ out' = Observe("gain_to", h, o, None, Ok(gain_to(Get(wp[h]), Get(wp[o]))))
    /\ wp' = [wp EXCEPT ![h] = IF IsNone(Get(wp[h]).ele)
                                THEN Some([Get(wp[h]) EXCEPT !.ele = Some(Dec(0, 0, -1))])
                                ELSE @]

\* h.gain_to(o)
GainTo(h, o) ==
    /\ ~IsNone(wp[h]) /\ ~IsNone(wp[o])
    /\ out' = Observe("gain_to", h, o, None, Ok(gain_to(Get(wp[h]), Get(wp[o]))))
    /\ UNCHANGED wp

\* h.slope_to(o)
SlopeTo(h, o) ==
    /\ ~IsNone(wp[h]) /\ ~IsNone(wp[o])
    /\ out' = Observe("slope_to", h, o, None, slope_to(Get(wp[h]), Get(wp[o])))
    /\ UNCHANGED wp

\* One waypoint, constructed from any input element or empty, then assigned,
\* built, parsed back and projected.
Next ==
    \/ /\ CanConstruct("a")
       /\ \E e \in {None} \cup {Some(x) : x \in InputElements} : Construct("a", e)
    \/ \E f \in OptionalFields \cup {"lat", "lon"} :
          \E v \in AssignValues(f) : Assign("a", f, v)
    \/ \E l \in LinkValues : AppendLink("a", l)
    \/ Build("a", "wpt")
    \/ Reparse("a")
    \/ GeoInterface("a")

Spec == Init /\ [][Next]_vars

\* Two waypoints, each constructed from an element with a position and at
\* most an elevation, a timestamp and a link.
NextPair ==
    \/ \E h \in Handles :
          /\ CanConstruct(h)
          /\ \E e \in {Some(x) : x \in PairElements} : Construct(h, e)
    \/ \E h \in Handles : \E f \in PairFields :
          \E v \in AssignValues(f) : Assign(h, f, v)
    \/ \E h \in Handles : Build(h, "wpt")
    \/ \E h \in Handles : Reparse(h)
    \/ \E h \in Handles : GeoInterface(h)
    \/ \E p \in HandlePairs : DistanceTo(p[1], p[2])
    \/ \E p \in HandlePairs : DurationTo(p[1], p[2])
    \/ \E p \in HandlePairs : SpeedTo(p[1], p[2])
    \/ \E p \in HandlePairs : GainTo(p[1], p[2])
    \/ \E p \in HandlePairs : SlopeTo(p[1], p[2])

SpecPair == Init /\ [][NextPair]_vars

----------------------------------------------------------------------------
(* Properties *)

\* The waypoint under the handle of the last operation.
Self == Get(wp[out.self])

Other == Get(wp[out.other])

CountTag(children, tag) == Len(SelectSeq(children, LAMBDA c : c.tag = tag))

\* A datetime at the precision _build renders: whole milliseconds.
AtMillisecond(t) == [t EXCEPT !.microsecond = (@ \div 1000) * 1000]

\* The equality of one optional field of two waypoints, as Python compares
\* the values of the field's type.
FieldEq(f, x, y) ==
    /\ IsNone(x[f]) <=> IsNone(y[f])
    /\ ~IsNone(x[f]) =>
         CASE f \in DecimalFields \cup {"magvar"} -> DecEq(Get(x[f]), Get(y[f]))
           [] f = "time" -> DatetimeEq(AtMillisecond(Get(x[f])), AtMillisecond(Get(y[f])))
           [] OTHER -> Get(x[f]) = Get(y[f])

\* C1: a Waypoint constructed from the element that w._build() returned has
\* every field equal to w's field (time at the rendered precision, links of
\* the same length and order), absent where w's is absent and set where it
\* is set.
C1_RoundTrip ==
    out.op = "reparse" =>
       /\ out.result.ok
       /\ DecEq(Get(out.result.val.lat), Get(Self.lat))
       /\ DecEq(Get(out.result.val.lon), Get(Self.lon))
       /\ \A f \in OptionalFields : FieldEq(f, Self, out.result.val)
       /\ out.result.val.links = Self.links

\* C1 witness: the round trip of a waypoint with every optional field set and
\* two links.
C1_Witness ==
    /\ out.op = "reparse" /\ out.result.ok
    /\ \A f \in OptionalFields : ~IsNone(Self[f])
    /\ Len(Self.links) = 2
    /\ Get(Self.time).microsecond % 1000 # 0

\* C2: the built element has no child with the tag of an optional field
\* that is unset and exactly one child with the tag of a field that is set,
\* and as many link children as there are stored links.
C2_AbsencePreserved ==
    (out.op = "build" /\ out.result.ok) =>
       /\ \A f \in OptionalFields :
             CountTag(out.result.val.children, f) = IF IsNone(Self[f]) THEN 0 ELSE 1
       /\ CountTag(out.result.val.children, "link") = Len(Self.links)

\* C2 witness: a build of a waypoint with a field that is set, a field that
\* is unset and one link.
C2_Witness ==
    /\ out.op = "build" /\ out.result.ok
    /\ IsNone(Self.ele) /\ ~IsNone(Self.name) /\ Len(Self.links) = 1

\* The first child with the tag of field f is present in the element e.
HasChild(e, f) == ~IsNone(find(e, f))

\* The statements of _parse that fail on the element e, the text fields
\* counted as failing on a child without text when textToo holds.
Failing(e, textToo) ==
    { f \in {"lat"} : ~Latitude(e.attrib.lat).ok }
    \cup { f \in {"lon"} : ~Longitude(e.attrib.lon).ok }
    \cup { f \in TypedFields : HasChild(e, f) /\ ~Convert(f, Get(find(e, f)).text).ok }
    \cup { f \in TextFields : textToo /\ HasChild(e, f) /\ IsNone(Get(find(e, f)).text) }
    \cup { f \in {"links"} : \E i \in 1..Len(e.children) :
              e.children[i].tag = "link" /\ ~LinkParse(e.children[i]).ok }

\* The first field of s in the order of the statements of _parse.
FirstOf(s) ==
    ParseOrder[CHOOSE i \in 1..Len(ParseOrder) :
                  /\ ParseOrder[i] \in s
                  /\ \A j \in 1..(i - 1) : ParseOrder[j] \notin s]

\* The construction from the element e is all-or-nothing with respect to the
\* failing statements: it raises at the first of them and the caller gets no
\* object, and without one the object has every field of a present child
\* converted and every field of a missing child absent.
AllOrNothing(e, failing) ==
    /\ failing # {} =>
          /\ ~out.result.ok
          /\ out.result.field = FirstOf(failing)
          /\ IsNone(wp[out.self])
    /\ failing = {} =>
          /\ out.result.ok
          /\ wp[out.self] = Some(out.result.val)
          /\ \A f \in OptionalFields :
                IF HasChild(e, f)
                THEN out.result.val[f] = Convert(f, Get(find(e, f)).text).val
                ELSE IsNone(out.result.val[f])

\* C3 as stated: every present optional child whose text does not convert,
\* a child without text included, aborts the construction.
C3_Original ==
    (out.op = "init" /\ ~IsNone(out.arg)) =>
       AllOrNothing(Get(out.arg), Failing(Get(out.arg), TRUE))

\* C3 as amended: the first failing conversion (a missing or invalid lat or
\* lon, a present child of a typed field whose text does not convert, a
\* child without text included, or a link that does not parse) aborts the
\* construction and the caller gets no object; a missing child leaves the
\* field absent, and so does a child of a text field that has no text.
C3_AllOrNothing ==
    (out.op = "init" /\ ~IsNone(out.arg)) =>
       AllOrNothing(Get(out.arg), Failing(Get(out.arg), FALSE))

\* C3 witness: a construction aborted by a typed child without text, after
\* which the caller holds no waypoint.
C3_Witness ==
    /\ out.op = "init" /\ ~out.result.ok
    /\ out.result.field = "sat" /\ out.result.exc = "TypeError"
    /\ HasChild(Get(out.arg), "ele")
    /\ IsNone(wp[out.self])

\* The text of the time child of a built element.
TimeChildText(e) == Get(Get(find(e, "time")).text)

\* C4: the text of the built time child has millisecond precision when the
\* sub-second part of the timestamp is not zero and second precision
\* otherwise, and always ends with the designator Z, never with a numeric
\* offset and never without an offset.
C4_TimeTextZ ==
    (out.op = "build" /\ out.result.ok /\ ~IsNone(Self.time)) =>
       LET t == TimeChildText(out.result.val)
       IN  /\ Len(t) = IF Get(Self.time).microsecond # 0 THEN 24 ELSE 20
           /\ t[Len(t)] = "Z"
           /\ Get(Self.time).microsecond # 0 => t[20] = "."

\* C5: after a successful parse sat is absent or an integer >= 0.
C5_SatNonNegative ==
    (out.op = "init" /\ out.result.ok) =>
       (IsNone(out.result.val.sat) \/ Get(out.result.val.sat) >= 0)

\* C6: duration_to is the zero duration when either time is absent and
\* other.time - self.time otherwise; gain_to is 0 when either ele is absent
\* and other.ele - self.ele otherwise; neither raises on a missing value.
C6_MissingDefaults ==
    /\ out.op = "duration_to" =>
          IF IsNone(Self.time) \/ IsNone(Other.time)
          THEN out.result.ok /\ out.result.val = [days |-> 0, seconds |-> 0, microseconds |-> 0]
          ELSE out.result = DatetimeSub(Get(Other.time), Get(Self.time))
    /\ out.op = "gain_to" =>
          /\ out.result.ok
          /\ IF IsNone(Self.ele) \/ IsNone(Other.ele)
             THEN out.result.val.coef = 0
             ELSE LET e == MinExp(Get(Self.ele), Get(Other.ele))
                  IN  /\ out.result.val.exp = e
                      /\ Scaled(out.result.val, e)
                           = Scaled(Get(Other.ele), e) - Scaled(Get(Self.ele), e)

\* C6 witness: a duration between a waypoint without a time and one with a
\* time.
C6_Witness ==
    /\ out.op = "duration_to"
    /\ IsNone(Self.time) /\ ~IsNone(Other.time)
    /\ IsNone(Self.ele) /\ ~IsNone(Other.ele)

\* C7: when the duration between the two waypoints is zero (equal
\* timestamps or a timestamp absent), speed_to raises the division by zero
\* and returns no number, also for one and the same point.
C7_ZeroDurationSpeed ==
    (/\ out.op = "speed_to"
     /\ \/ IsNone(Self.time) \/ IsNone(Other.time)
        \/ DatetimeEq(Get(Self.time), Get(Other.time))) =>
       (~out.result.ok /\ out.result.exc = "ZeroDivisionError")

\* C7 witness: the speed from a waypoint with a timestamp to itself.
C7_Witness ==
    /\ out.op = "speed_to" /\ out.self = out.other
    /\ ~IsNone(Self.time)
    /\ ~out.result.ok

\* C8: the coordinates of __geo_interface__ are [lon, lat] when ele is unset
\* and [lon, lat, ele] when it is set, zero included; type is Feature and
\* geometry.type is Point.
C8_GeoCoordinates ==
    (out.op = "geo" /\ out.result.ok) =>
       LET c == out.result.val.geometry.coordinates
       IN  /\ out.result.val.type = "Feature"
           /\ out.result.val.geometry.type = "Point"
           /\ Len(c) = IF IsNone(Self.ele) THEN 2 ELSE 3
           /\ DecEq(c[1], Get(Self.lon))
           /\ DecEq(c[2], Get(Self.lat))
           /\ ~IsNone(Self.ele) => DecEq(c[3], Get(Self.ele))

\* C8 witness: the projection of a waypoint whose ele is zero.
C8_Witness ==
    /\ out.op = "geo" /\ out.result.ok
    /\ ~IsNone(Self.ele) /\ Get(Self.ele).coef = 0

ReadOnlyOps ==
    {"distance_to", "duration_to", "speed_to", "gain_to", "slope_to", "geo", "build"}

\* C9: a step of distance_to, duration_to, speed_to, gain_to, slope_to,
\* __geo_interface__ or _build, also one that raises, leaves every field of
\* every waypoint unchanged, and so a _build of a waypoint involved in the
\* step emits the same element after the step as before it.
C9_ReadOnly ==
    [][out'.op \in ReadOnlyOps =>
          /\ wp' = wp
          /\ \A h \in Handles \cap {out'.self, out'.other} :
                ~IsNone(wp[h]) =>
                   /\ ~IsNone(wp'[h])
                   /\ _build(Get(wp'[h]), "wpt") = _build(Get(wp[h]), "wpt")]_vars

\* C9 witness: a speed_to that raised the division by zero between two
\* waypoints that each hold a timestamp and a link.
C9_Witness ==
    /\ out.op = "speed_to" /\ ~out.result.ok /\ out.self # out.other
    /\ Len(Self.links) = 1 /\ Len(Other.links) = 1
    /\ ~IsNone(Self.time) /\ ~IsNone(Other.time)

\* The order of the children in the GPX schema.
GpxOrder ==
    <<"ele", "time", "magvar", "geoidheight", "name", "cmt", "desc", "src",
      "link", "sym", "type", "fix", "sat", "hdop", "vdop", "pdop",
      "ageofdgpsdata", "dgpsid">>

GpxRank(tag) == CHOOSE i \in 1..Len(GpxOrder) : GpxOrder[i] = tag

\* C10: the children of the built element appear in the order ele, time,
\* magvar, geoidheight, name, cmt, desc, src, the links in stored order,
\* sym, type, fix, sat, hdop, vdop, pdop, ageofdgpsdata, dgpsid.
C10_EmissionOrder ==
    (out.op = "build" /\ out.result.ok) =>
       LET cs == out.result.val.children
           ls == SelectSeq(cs, LAMBDA c : c.tag = "link")
       IN  /\ \A i, j \in 1..Len(cs) :
                 i < j => GpxRank(cs[i].tag) <= GpxRank(cs[j].tag)
           /\ Len(ls) = Len(Self.links)
           /\ \A i \in 1..Len(ls) :
                 /\ Get(ls[i].sub).href = Some(Self.links[i].href)
                 /\ Get(ls[i].sub).text = Self.links[i].text

\* C10 witness: the build of the waypoint parsed from the element whose
\* children are in the reverse of the schema's order.
C10_Witness ==
    /\ out.op = "build" /\ out.result.ok
    /\ \A f \in OptionalFields : ~IsNone(Self[f])
    /\ Len(Self.links) = 2 /\ Self.links[1].href = <<"v">>

====
